---- MODULE Spec2Model ----
(***************************************************************************)
(* DatastoreStore (lib/datastore-store.js): a passwordless token store on  *)
(* Google Cloud Datastore.  Every public method is a short chain of        *)
(* asynchronous steps (bcrypt hash / compare, runQuery, upsert, delete);   *)
(* the steps of different invocations interleave freely, one step of the   *)
(* model being one callback of the JavaScript event loop.                  *)
(***************************************************************************)
EXTENDS Integers, FiniteSets, Sequences, TLC

\* ---------------------------------------------------------------- bounds
MaxTime == 1            \* the clock (Date.now()) runs over 0..MaxTime
MaxKeys == 2            \* entity ids the backend can allocate: 1..MaxKeys

Procs  == {"p1", "p2"}  \* invocations that can be in flight at the same time
Uids   == {"u1", "u2"}
Tokens == {"t1", "t2"}
Urls   == {"/d"}
Salts  == {"s1"}

\* ------------------------------------------------------ JavaScript values
Null  == "null"         \* null / undefined
Empty == ""             \* the empty string

StorageError == "StorageError"      \* a rejected datastore promise
HashingError == "HashingError"      \* an err handed over by bcrypt

\* !x for a string argument, !n for a number argument
FalsyStr(s) == s = Empty \/ s = Null
FalsyNum(n) == n = 0

TokenArgs == Tokens \cup {Empty}
UidArgs   == Uids \cup {Empty}
MsArgs    == {-1, 0, 1}
UrlArgs   == Urls \cup {Empty}

\* the tokens the sequential caller stores
SeqStored == {"t1", Empty}

\* the arguments of the concurrent callers; they pass originUrl = null
RaceTokens == Tokens \cup {Empty}
RaceUids   == {"u1", Empty}
RaceMs     == {0, 2}
RaceUrls   == {Null}
Keys      == 1..MaxKeys
IncompleteKey == 0      \* datastore.key(kind): a key whose id is not allocated yet

\* ------------------------------------------------------------------ bcrypt
\* bcrypt.hash: the digest embeds the salt it was computed with
Hash(salt, token) == <<salt, token>>
\* bcrypt.compare: hash the candidate again with the digest's salt
Compare(token, digest) == Hash(digest[1], token) = digest

\* results[0].originUrl || ''
OrEmpty(u) == IF FalsyStr(u) THEN Empty ELSE u

\* ------------------------------------------------------------- constructor
Handle   == "datastore"             \* the Datastore instance handed to the constructor
TestKind == "passwordless-test"     \* the kind the test harness constructs its stores with

\* the argument lists a store is constructed with: the kind given, or left out
CtorArgs == {<<Handle>>, <<Handle, TestKind>>}

\* function DatastoreStore(datastore, kind): a parameter past the end of
\* arguments is undefined
DatastoreStore(arguments) ==
    [arguments |-> arguments,
     datastore |-> arguments[1],
     kind      |-> IF Len(arguments) >= 2 THEN arguments[2] ELSE Null]

\* ------------------------------------------------------------------- state
VARIABLES
    this,       \* the store object: the constructor's arguments, this.datastore, this.kind
    db,         \* the kind's entities: key -> [uid, hashedToken, ttl, originUrl]
    now,        \* Date.now()
    frame,      \* per invocation slot: position, arguments and closure variables
    calls,      \* per slot: the bcrypt / datastore calls its invocation issued, with status
    out,        \* what the step just taken handed to a caller: a throw or callback arguments
    lastStore   \* per uid: token of the storeOrUpdate that completed last, undisturbed

vars == <<this, db, now, frame, calls, out, lastStore>>

EmptyDb == [k \in {} |-> Null]

IdleFrame ==
    [pc |-> "idle", token |-> Null, uid |-> Null, msToLive |-> 0, originUrl |-> Null,
     qnow |-> 0, hashedToken |-> <<>>, ttl |-> 0, key |-> IncompleteKey, keys |-> {},
     alone |-> FALSE]

\* inv is the frame of the invocation that ended, calls the calls it had issued
NoOut == [op |-> "none", thrown |-> FALSE, args |-> <<>>, inv |-> IdleFrame, calls |-> <<>>]

\* the state after new DatastoreStore(...arguments)
Constructed(arguments) ==
    /\ this = DatastoreStore(arguments)
    /\ db = EmptyDb
    /\ now = 0
    /\ frame = [p \in Procs |-> IdleFrame]
    /\ out = NoOut
    /\ calls = [p \in Procs |-> <<>>]
    /\ lastStore = [u \in Uids |-> Null]

\* the test harness constructs every store with its kind
Init == Constructed(<<Handle, TestKind>>)
\* a store constructed with or without the kind argument
InitAnyKind == \E arguments \in CtorArgs : Constructed(arguments)

\* ---------------------------------------------------------------- backend
Put(d, k, r) == [x \in DOMAIN d \cup {k} |-> IF x = k THEN r ELSE d[x]]
Remove(d, ks) == [x \in DOMAIN d \ ks |-> d[x]]

Min(S) == CHOOSE x \in S : \A y \in S : x <= y

\* mutant: the uid filter left out of the keys-only query
KeysOfAnyUid(d, uid) == DOMAIN d
\* createQuery(kind).select('__key__').filter('uid', '=', uid)
KeysOfUid(d, uid) == {k \in DOMAIN d : d[k].uid = uid}
\* createQuery(kind).select('__key__')
AllKeys(d) == DOMAIN d
\* mutant: the ttl filter written with '>='
AuthRowsInclusive(d, uid, t) == {k \in DOMAIN d : d[k].uid = uid /\ d[k].ttl >= t}
\* mutant: the uid filter left out
AuthRowsAnyUid(d, uid, t) == {k \in DOMAIN d : d[k].ttl > t}
\* createQuery(kind).filter('uid', '=', uid).filter('ttl', '>', Date.now())
AuthRows(d, uid, t) == {k \in DOMAIN d : d[k].uid = uid /\ d[k].ttl > t}

\* the kind a query is made on: createQuery(this.kind)
QueryKind == this.kind
\* the kind a new key is allocated in: this.datastore.key(this.kind)
NewKeyKind == this.kind

\* results[0] of a keys-only query: Datastore lists entities in key order
FirstKey(ks) == Min(ks)
\* results[0] of the authenticate query: index order, by ttl and then by key
FirstRow(d, ks) ==
    CHOOSE k \in ks : \A j \in ks : d[k].ttl < d[j].ttl \/ (d[k].ttl = d[j].ttl /\ k <= j)

\* ------------------------------------------------------- call bookkeeping
\* the last call of the sequence cs gets its status
Settled(cs, status) == [cs EXCEPT ![Len(cs)] = <<cs[Len(cs)][1], status>>]
SettleIssue(p, status, api) ==
    [calls EXCEPT ![p] = Append(Settled(calls[p], status), <<api, "pending">>)]

StorePcs == {"store_hash", "store_runQuery", "store_upsert"}
InvPcs   == {"inv_runQuery", "inv_delete"}
ClearPcs == {"clear_runQuery", "clear_delete"}
AuthPcs  == {"auth_runQuery", "auth_compare"}

\* q is in flight with an operation that writes records of a uid in U
Writes(q, U) ==
    \/ frame[q].pc \in StorePcs \cup InvPcs /\ frame[q].uid \in U
    \/ frame[q].pc \in ClearPcs

\* p starts a writing operation on the uids U with frame f; keep says that
\* the operation, run undisturbed, leaves the last stored token in place until
\* it completes
StartWrite(p, U, f, keep) ==
    /\ frame' = [q \in Procs |->
                    IF q = p THEN [f EXCEPT !.alone = ~ \E r \in Procs \ {p} : Writes(r, U)]
                    ELSE IF Writes(q, U) THEN [frame[q] EXCEPT !.alone = FALSE]
                    ELSE frame[q]]
    /\ lastStore' = [u \in Uids |->
                        IF u \in U /\ ~ (keep /\ ~ \E r \in Procs \ {p} : Writes(r, U))
                        THEN Null ELSE lastStore[u]]

\* the pending call of p settles with status and its handler ends the
\* invocation with callback(args)
Callback(p, op, status, args) ==
    /\ out' = [op |-> op, thrown |-> FALSE, args |-> args, inv |-> frame[p],
               calls |-> Settled(calls[p], status)]
    /\ frame' = [frame EXCEPT ![p] = IdleFrame]
    /\ calls' = [calls EXCEPT ![p] = <<>>]

\* throw new Error('TokenStore:<op> called with invalid parameters')
Throw(p, op, token, uid, msToLive) ==
    /\ out' = [op |-> op, thrown |-> TRUE, args |-> <<>>, calls |-> <<>>,
               inv |-> [IdleFrame EXCEPT !.token = token, !.uid = uid, !.msToLive = msToLive]]
    /\ UNCHANGED <<this, db, now, frame, calls, lastStore>>

\* ------------------------------------------------------------ authenticate
\* mutant: the uid is not checked
AuthenticateInvalidTokenOnly(token, uid) == FalsyStr(token)
AuthenticateInvalid(token, uid) == FalsyStr(token) \/ FalsyStr(uid)

Authenticate(p, token, uid) ==
    /\ frame[p].pc = "idle"
    /\ IF AuthenticateInvalid(token, uid)
       THEN Throw(p, "authenticate", token, uid, 0)
       ELSE /\ frame' = [frame EXCEPT ![p] =
                    [IdleFrame EXCEPT !.pc = "auth_runQuery", !.token = token,
                                      !.uid = uid, !.qnow = now]]
            /\ out' = NoOut
            /\ calls' = [calls EXCEPT ![p] = <<<<"runQuery", "pending">>>>]
            /\ UNCHANGED <<this, db, now, lastStore>>

\* mutant: a mismatch still hands over the stored originUrl
CompareOutcomeLeaksUrl(token, row) ==
    IF Compare(token, row.hashedToken)
    THEN <<Null, TRUE, OrEmpty(row.originUrl)>>
    ELSE <<Null, FALSE, OrEmpty(row.originUrl)>>

\* what the comparison callback reports for the row results[0]
CompareOutcome(token, row) ==
    IF Compare(token, row.hashedToken)
    THEN <<Null, TRUE, OrEmpty(row.originUrl)>>
    ELSE <<Null, FALSE, Null>>

AuthRunQuery(p) ==
    /\ frame[p].pc = "auth_runQuery"
    /\ LET results == AuthRows(db, frame[p].uid, frame[p].qnow) IN
       IF results = {}
       THEN /\ Callback(p, "authenticate", "ok", <<Null, FALSE, Null>>)
       ELSE /\ frame' = [frame EXCEPT ![p].pc = "auth_compare",
                            ![p].hashedToken = db[FirstRow(db, results)].hashedToken,
                            ![p].ttl = db[FirstRow(db, results)].ttl,
                            ![p].originUrl = db[FirstRow(db, results)].originUrl]
            /\ calls' = SettleIssue(p, "ok", "compare")
            /\ out' = NoOut
    /\ UNCHANGED <<this, db, now, lastStore>>

AuthRunQueryFail(p) ==
    /\ frame[p].pc = "auth_runQuery"
    /\ Callback(p, "authenticate", "failed", <<StorageError, FALSE, Null>>)
    /\ UNCHANGED <<this, db, now, lastStore>>

\* mutant: a match consumes the token
AuthCompareConsumes(p) ==
    /\ frame[p].pc = "auth_compare"
    /\ Callback(p, "authenticate", "ok", CompareOutcome(frame[p].token, frame[p]))
    /\ db' = IF Compare(frame[p].token, frame[p].hashedToken)
             THEN Remove(db, KeysOfUid(db, frame[p].uid)) ELSE db
    /\ UNCHANGED <<this, now, lastStore>>

AuthCompare(p) ==
    /\ frame[p].pc = "auth_compare"
    /\ Callback(p, "authenticate", "ok", CompareOutcome(frame[p].token, frame[p]))
    /\ UNCHANGED <<this, db, now, lastStore>>

\* mutant: an error of the comparison is taken for a match
AuthCompareFailOpen(p) ==
    /\ frame[p].pc = "auth_compare"
    /\ Callback(p, "authenticate", "failed", <<Null, TRUE, OrEmpty(frame[p].originUrl)>>)
    /\ UNCHANGED <<this, db, now, lastStore>>

AuthCompareFail(p) ==
    /\ frame[p].pc = "auth_compare"
    /\ Callback(p, "authenticate", "failed", <<HashingError, FALSE, Null>>)
    /\ UNCHANGED <<this, db, now, lastStore>>

\* what authenticate(token, uid), called at time t, reports on the entities d
\* when neither the query nor the comparison fails
AuthOutcome(d, token, uid, t) ==
    LET results == AuthRows(d, uid, t) IN
    IF results = {} THEN <<Null, FALSE, Null>>
    ELSE CompareOutcome(token, d[FirstRow(d, results)])

\* ----------------------------------------------------------- storeOrUpdate
\* mutant: msToLive is not checked
StoreOrUpdateInvalidNoMs(token, uid, msToLive) == FalsyStr(token) \/ FalsyStr(uid)
StoreOrUpdateInvalid(token, uid, msToLive) ==
    FalsyStr(token) \/ FalsyStr(uid) \/ FalsyNum(msToLive)

StoreOrUpdate(p, token, uid, msToLive, originUrl) ==
    /\ frame[p].pc = "idle"
    /\ IF StoreOrUpdateInvalid(token, uid, msToLive)
       THEN Throw(p, "storeOrUpdate", token, uid, msToLive)
       ELSE /\ StartWrite(p, {uid},
                    [IdleFrame EXCEPT !.pc = "store_hash", !.token = token, !.uid = uid,
                                      !.msToLive = msToLive, !.originUrl = originUrl],
                    TRUE)
            /\ out' = NoOut
            /\ calls' = [calls EXCEPT ![p] = <<<<"hash", "pending">>>>]
            /\ UNCHANGED <<this, db, now>>

\* newRecord.ttl
NewTtl(t, msToLive) == t + msToLive

StoreHash(p) ==
    /\ frame[p].pc = "store_hash"
    /\ \E salt \in Salts :
         frame' = [frame EXCEPT ![p].pc = "store_runQuery",
                                ![p].hashedToken = Hash(salt, frame[p].token),
                                ![p].ttl = NewTtl(now, frame[p].msToLive)]
    /\ calls' = SettleIssue(p, "ok", "runQuery")
    /\ out' = NoOut
    /\ UNCHANGED <<this, db, now, lastStore>>

StoreHashFail(p) ==
    /\ frame[p].pc = "store_hash"
    /\ Callback(p, "storeOrUpdate", "failed", <<HashingError>>)
    /\ UNCHANGED <<this, db, now, lastStore>>

\* results[0] ? results[0][Datastore.KEY] : this.datastore.key(this.kind)
StoreKey(results) == IF results # {} THEN FirstKey(results) ELSE IncompleteKey

StoreRunQuery(p) ==
    /\ frame[p].pc = "store_runQuery"
    /\ frame' = [frame EXCEPT ![p].pc = "store_upsert",
                              ![p].key = StoreKey(KeysOfUid(db, frame[p].uid))]
    /\ calls' = SettleIssue(p, "ok", "upsert")
    /\ out' = NoOut
    /\ UNCHANGED <<this, db, now, lastStore>>

\* mutant: a failed query is issued again
StoreRunQueryRetry(p) ==
    /\ frame[p].pc = "store_runQuery"
    /\ calls' = SettleIssue(p, "failed", "runQuery")
    /\ out' = NoOut
    /\ UNCHANGED <<this, db, now, frame, lastStore>>

StoreRunQueryFail(p) ==
    /\ frame[p].pc = "store_runQuery"
    /\ Callback(p, "storeOrUpdate", "failed", <<StorageError>>)
    /\ UNCHANGED <<this, db, now, lastStore>>

NewRecord(f) ==
    [uid |-> f.uid, hashedToken |-> f.hashedToken, ttl |-> f.ttl, originUrl |-> f.originUrl]

\* complete keys an invocation in flight still holds from its query
HeldKeys == UNION {{frame[q].key} \cup frame[q].keys : q \in Procs}

\* the ids an upsert under key may commit to: the key itself, or for an
\* incomplete key any id the backend has not handed out.  An id is never handed
\* out twice; one that is neither stored nor held any more stands for a new one.
UpsertKeys(d, key) ==
    IF key = IncompleteKey THEN Keys \ (DOMAIN d \cup HeldKeys) ELSE {key}

StoreUpsert(p) ==
    /\ frame[p].pc = "store_upsert"
    /\ \E k \in UpsertKeys(db, frame[p].key) : db' = Put(db, k, NewRecord(frame[p]))
    /\ Callback(p, "storeOrUpdate", "ok", <<>>)
    /\ lastStore' = [lastStore EXCEPT ![frame[p].uid] =
                        IF frame[p].alone THEN frame[p].token ELSE Null]
    /\ UNCHANGED <<this, now>>

\* mutant: the record is written although the upsert reports a failure
StoreUpsertFailApplied(p) ==
    /\ frame[p].pc = "store_upsert"
    /\ \E k \in UpsertKeys(db, frame[p].key) : db' = Put(db, k, NewRecord(frame[p]))
    /\ Callback(p, "storeOrUpdate", "failed", <<StorageError>>)
    /\ UNCHANGED <<this, now, lastStore>>

StoreUpsertFail(p) ==
    /\ frame[p].pc = "store_upsert"
    /\ Callback(p, "storeOrUpdate", "failed", <<StorageError>>)
    /\ UNCHANGED <<this, db, now, lastStore>>

\* ---------------------------------------------------------- invalidateUser
InvalidateUserInvalid(uid) == FalsyStr(uid)

InvalidateUser(p, uid) ==
    /\ frame[p].pc = "idle"
    /\ IF InvalidateUserInvalid(uid)
       THEN Throw(p, "invalidateUser", Null, uid, 0)
       ELSE /\ StartWrite(p, {uid}, [IdleFrame EXCEPT !.pc = "inv_runQuery", !.uid = uid], FALSE)
            /\ out' = NoOut
            /\ calls' = [calls EXCEPT ![p] = <<<<"runQuery", "pending">>>>]
            /\ UNCHANGED <<this, db, now>>

InvRunQuery(p) ==
    /\ frame[p].pc = "inv_runQuery"
    /\ LET results == KeysOfUid(db, frame[p].uid) IN
       IF results # {}
       THEN /\ frame' = [frame EXCEPT ![p].pc = "inv_delete", ![p].key = FirstKey(results)]
            /\ calls' = SettleIssue(p, "ok", "delete")
            /\ out' = NoOut
       ELSE /\ Callback(p, "invalidateUser", "ok", <<>>)
    /\ UNCHANGED <<this, db, now, lastStore>>

\* mutant: the rejection of the query is swallowed
InvRunQuerySwallowed(p) ==
    /\ frame[p].pc = "inv_runQuery"
    /\ frame' = [frame EXCEPT ![p].pc = "lost"]
    /\ calls' = [calls EXCEPT ![p] = Settled(calls[p], "failed")]
    /\ out' = NoOut
    /\ UNCHANGED <<this, db, now, lastStore>>

InvRunQueryFail(p) ==
    /\ frame[p].pc = "inv_runQuery"
    /\ Callback(p, "invalidateUser", "failed", <<StorageError>>)
    /\ UNCHANGED <<this, db, now, lastStore>>

InvDelete(p) ==
    /\ frame[p].pc = "inv_delete"
    /\ db' = Remove(db, {frame[p].key})
    /\ Callback(p, "invalidateUser", "ok", <<>>)
    /\ UNCHANGED <<this, now, lastStore>>

InvDeleteFail(p) ==
    /\ frame[p].pc = "inv_delete"
    /\ Callback(p, "invalidateUser", "failed", <<StorageError>>)
    /\ UNCHANGED <<this, db, now, lastStore>>

\* -------------------------------------------------------------------- clear
Clear(p) ==
    /\ frame[p].pc = "idle"
    /\ StartWrite(p, Uids, [IdleFrame EXCEPT !.pc = "clear_runQuery"], FALSE)
    /\ out' = NoOut
    /\ calls' = [calls EXCEPT ![p] = <<<<"runQuery", "pending">>>>]
    /\ UNCHANGED <<this, db, now>>

\* mutant: only the first result's key is deleted
ClearKeysFirstOnly(results) == {FirstKey(results)}
\* results.map(function (result) { return result[Datastore.KEY] })
ClearKeys(results) == results

ClearRunQuery(p) ==
    /\ frame[p].pc = "clear_runQuery"
    /\ LET results == AllKeys(db) IN
       IF Cardinality(results) > 0
       THEN /\ frame' = [frame EXCEPT ![p].pc = "clear_delete",
                                     ![p].keys = ClearKeys(results)]
            /\ calls' = SettleIssue(p, "ok", "delete")
            /\ out' = NoOut
       ELSE /\ Callback(p, "clear", "ok", <<>>)
    /\ UNCHANGED <<this, db, now, lastStore>>

ClearRunQueryFail(p) ==
    /\ frame[p].pc = "clear_runQuery"
    /\ Callback(p, "clear", "failed", <<StorageError>>)
    /\ UNCHANGED <<this, db, now, lastStore>>

ClearDelete(p) ==
    /\ frame[p].pc = "clear_delete"
    /\ db' = Remove(db, frame[p].keys)
    /\ Callback(p, "clear", "ok", <<>>)
    /\ UNCHANGED <<this, now, lastStore>>

ClearDeleteFail(p) ==
    /\ frame[p].pc = "clear_delete"
    /\ Callback(p, "clear", "failed", <<StorageError>>)
    /\ UNCHANGED <<this, db, now, lastStore>>

\* ------------------------------------------------------------------- length
\* mutant: the count filtered by ttl
LengthOutcomeUnexpired(d) == <<Null, Cardinality({k \in AllKeys(d) : d[k].ttl > now})>>
\* results.length of the keys-only query over the whole kind
LengthOutcome(d) == <<Null, Cardinality(AllKeys(d))>>

Length(p) ==
    /\ frame[p].pc = "idle"
    /\ frame' = [frame EXCEPT ![p] = [IdleFrame EXCEPT !.pc = "length_runQuery"]]
    /\ out' = NoOut
    /\ calls' = [calls EXCEPT ![p] = <<<<"runQuery", "pending">>>>]
    /\ UNCHANGED <<this, db, now, lastStore>>

LengthRunQuery(p) ==
    /\ frame[p].pc = "length_runQuery"
    /\ Callback(p, "length", "ok", LengthOutcome(db))
    /\ UNCHANGED <<this, db, now, lastStore>>

LengthRunQueryFail(p) ==
    /\ frame[p].pc = "length_runQuery"
    /\ Callback(p, "length", "failed", <<StorageError>>)
    /\ UNCHANGED <<this, db, now, lastStore>>

\* -------------------------------------------------------------------- clock
Tick ==
    /\ now < MaxTime
    /\ now' = now + 1
    /\ out' = NoOut
    /\ UNCHANGED <<this, db, frame, calls, lastStore>>

\* --------------------------------------------------------------------- spec
\* a caller invokes a method on slot p with arguments from the given sets
Invoke(p, tokens, stored, uids, mss, urls) ==
    \/ \E token \in tokens, uid \in uids : Authenticate(p, token, uid)
    \/ \E token \in stored, uid \in uids, msToLive \in mss, originUrl \in urls :
          StoreOrUpdate(p, token, uid, msToLive, originUrl)
    \/ \E uid \in uids : InvalidateUser(p, uid)
    \/ Clear(p)
    \/ Length(p)

\* a promise or bcrypt callback of the invocation in slot p runs
Resume(p) ==
    \/ AuthRunQuery(p)
    \/ AuthRunQueryFail(p)
    \/ AuthCompare(p)
    \/ AuthCompareFail(p)
    \/ StoreHash(p)
    \/ StoreHashFail(p)
    \/ StoreRunQuery(p)
    \/ StoreRunQueryFail(p)
    \/ StoreUpsert(p)
    \/ StoreUpsertFail(p)
    \/ InvRunQuery(p)
    \/ InvRunQueryFail(p)
    \/ InvDelete(p)
    \/ InvDeleteFail(p)
    \/ ClearRunQuery(p)
    \/ ClearRunQueryFail(p)
    \/ ClearDelete(p)
    \/ ClearDeleteFail(p)
    \/ LengthRunQuery(p)
    \/ LengthRunQueryFail(p)

\* Concurrent callers: up to two invocations in flight, interleaved at will,
\* on one uid.
Next ==
    \/ Tick
    \/ \E p \in Procs :
        \/ Invoke(p, RaceTokens, RaceTokens, RaceUids, RaceMs, RaceUrls)
        \/ Resume(p)

Spec == Init /\ [][Next]_vars

\* One caller that waits for each callback before the next invocation, with
\* the wide argument sets.
NextSeq ==
    \/ Tick
    \/ Invoke("p1", TokenArgs, SeqStored, UidArgs, MsArgs, UrlArgs)
    \/ Resume("p1")

SpecSeq == Init /\ [][NextSeq]_vars

\* Concurrent callers on two uids, with one token and one msToLive, within
\* one tick of the clock.
PairTokens == {"t1"}
PairMs     == {2}

NextPair ==
    \E p \in Procs :
        \/ Invoke(p, PairTokens, PairTokens, Uids, PairMs, RaceUrls)
        \/ Resume(p)

SpecPair == Init /\ [][NextPair]_vars

\* The same callers, every pending bcrypt or backend call completing at some
\* time: the callback of an invocation in flight is not put off for ever.
SpecFair == SpecPair /\ \A p \in Procs : WF_vars(Resume(p))

\* The same caller on a store constructed with or without the kind argument.
SpecAnyKind == InitAnyKind /\ [][NextSeq]_vars

\* ------------------------------------------------------------------- claims
\* an invocation of op ended in the step just taken, with a callback
Ended(op) == out.op = op /\ ~ out.thrown
\* ... and none of the calls it issued failed
Succeeded(op) == Ended(op) /\ \A i \in 1..Len(out.calls) : out.calls[i][2] = "ok"
\* the invocation was rejected in the step just taken
Rejected(op) == out.op = op /\ out.thrown

NotValid == <<Null, FALSE, Null>>
Valid(originUrl) == <<Null, TRUE, OrEmpty(originUrl)>>

\* C1: in every reachable state the backend holds at most one record for each
\* uid, whatever the interleaving of the operations.
C1_OneRecordPerUid == \A u \in Uids : Cardinality(KeysOfUid(db, u)) <= 1

\* C2: when storeOrUpdate(token, uid, msToLive > 0, originUrl) has completed
\* successfully, undisturbed by other writers of the uid, authenticate(token,
\* uid) called on the store as it then is, at any time before the ttl, reports
\* (no error, true, originUrl or '').
C2_StoreThenAuthenticate ==
    (Succeeded("storeOrUpdate") /\ out.inv.alone /\ out.inv.msToLive > 0) =>
        \A t \in now..MaxTime :
            t < out.inv.ttl =>
                AuthOutcome(db, out.inv.token, out.inv.uid, t) = Valid(out.inv.originUrl)

\* C3: when storeOrUpdate(t2, uid) completes right after storeOrUpdate(t1, uid)
\* with t1 # t2, one after the other, authenticate(t1, uid) reports (false,
\* null), authenticate(t2, uid) reports (true, url) until the ttl, and the
\* second call has not raised the count length() reports.
C3_SecondStoreReplaces ==
    [][(Succeeded("storeOrUpdate")' /\ out'.inv.alone
          /\ lastStore[out'.inv.uid] \notin {Null, out'.inv.token}) =>
            /\ \A t \in now'..MaxTime :
                /\ AuthOutcome(db', lastStore[out'.inv.uid], out'.inv.uid, t) = NotValid
                /\ t < out'.inv.ttl =>
                     AuthOutcome(db', out'.inv.token, out'.inv.uid, t)
                        = Valid(out'.inv.originUrl)
            /\ LengthOutcome(db')[2] <= LengthOutcome(db)[2]]_vars

\* the query of the authenticate in slot p is answered in this step
AuthAnswered(p) == frame[p].pc = "auth_runQuery" /\ frame'[p].pc # "auth_runQuery"

\* the step ends the authenticate of slot p reporting not valid, and without
\* an error unless the query failed
EndsNotValid(p) ==
    /\ Ended("authenticate")' /\ out'.inv = frame[p]
    /\ out'.args[2] = FALSE /\ out'.args[3] = Null
    /\ out'.calls = <<<<"runQuery", "ok">>>> => out'.args = NotValid

\* C4: a record is valid only while the time of the call is strictly less
\* than its ttl, the ttl being a time of the storing invocation plus msToLive:
\* authenticate reports (false, null) when every record of the uid has ttl <=
\* the time of the call, it reports true only on a record whose ttl is later
\* than the time of the call, and length() still counts the expired records.
C4_ExpiredRecordNotValid ==
    [][/\ \A p \in Procs :
            (AuthAnswered(p)
               /\ \A k \in KeysOfUid(db, frame[p].uid) : db[k].ttl <= frame[p].qnow)
              => EndsNotValid(p)
       /\ (Ended("authenticate")' /\ out'.args[2]) => out'.inv.ttl > out'.inv.qnow
       /\ Succeeded("storeOrUpdate")' =>
            \E k \in KeysOfUid(db', out'.inv.uid) :
                /\ db'[k] = NewRecord(out'.inv)
                /\ db'[k].ttl - out'.inv.msToLive \in 0..now'
       /\ Succeeded("length")' =>
            out'.args[2] >= Cardinality({k \in DOMAIN db' : db'[k].ttl <= now'})]_vars

\* C4 witness: the correct token is refused at the very instant of its ttl,
\* the record still being stored.
W_C4 ==
    /\ Ended("authenticate") /\ out.args = NotValid
    /\ \E k \in KeysOfUid(db, out.inv.uid) :
        /\ Compare(out.inv.token, db[k].hashedToken)
        /\ db[k].ttl = out.inv.qnow
        /\ db[k].ttl > 0

\* C5: after invalidateUser(uid) has completed, undisturbed by other writers
\* of the uid, the uid has no record, authenticate(anyToken, uid) reports
\* (false, null), and the count is exactly one less than before if the uid had
\* a record; if it had none the store is unchanged.
C5_InvalidateRemoves ==
    [][(Succeeded("invalidateUser")' /\ out'.inv.alone) =>
            /\ KeysOfUid(db', out'.inv.uid) = {}
            /\ \A token \in Tokens, t \in now'..MaxTime :
                  AuthOutcome(db', token, out'.inv.uid, t) = NotValid
            /\ IF KeysOfUid(db, out'.inv.uid) # {}
               THEN LengthOutcome(db')[2] = LengthOutcome(db)[2] - 1
               ELSE db' = db]_vars

\* C6: when clear() has completed successfully with no other writer in flight
\* at any time of its run, the store is empty: length() reports 0 and
\* authenticate reports (false, null) for every token, uid and time.
C6_ClearEmptiesStore ==
    (Succeeded("clear") /\ out.inv.alone) =>
        /\ db = EmptyDb
        /\ LengthOutcome(db) = <<Null, 0>>
        /\ \A token \in Tokens, uid \in Uids, t \in 0..MaxTime :
              AuthOutcome(db, token, uid, t) = NotValid

\* C6 witness: a clear that deleted two records or more.
W_C6 == Succeeded("clear") /\ out.inv.alone /\ Cardinality(out.inv.keys) >= 2 /\ db = EmptyDb

\* C7: length() reports the number of all records present when its query
\* runs, the expired ones counted like the valid ones.
C7_LengthCountsAll == Succeeded("length") => out.args = <<Null, Cardinality(DOMAIN db)>>

\* C7 witness: a count of two, one of the records expired and one not.
W_C7 ==
    /\ Succeeded("length") /\ out.args = <<Null, 2>>
    /\ \E k \in DOMAIN db : db[k].ttl <= now
    /\ \E k \in DOMAIN db : db[k].ttl > now

\* C8: for a uid that has no record when the query is answered, authenticate
\* with any non-empty token reports (no error, false, null), without comparing.
C8_NoRecordNotValid ==
    [][\A p \in Procs :
          (AuthAnswered(p) /\ KeysOfUid(db, frame[p].uid) = {}) => EndsNotValid(p)]_vars

\* C8 witness: the token is stored and valid, but for another uid.
W_C8 ==
    /\ Ended("authenticate") /\ out.args = NotValid
    /\ KeysOfUid(db, out.inv.uid) = {}
    /\ \E k \in DOMAIN db : Compare(out.inv.token, db[k].hashedToken) /\ db[k].ttl > now

\* the arguments found in frame f
BadStrings(f) == FalsyStr(f.token) \/ FalsyStr(f.uid)

\* a rejection changes neither the store nor any invocation, and issues no call
NothingDone == db' = db /\ frame' = frame /\ calls' = calls /\ out'.calls = <<>>

\* C9 as stated: storeOrUpdate with an empty token or uid, or with msToLive
\* <= 0, is rejected and no record is created or changed; other calls are
\* accepted.
C9_RejectsNonPositiveMs ==
    [][/\ \A p \in Procs : frame'[p].pc \in StorePcs =>
            ~ (BadStrings(frame'[p]) \/ frame'[p].msToLive <= 0)
       /\ Rejected("storeOrUpdate")' =>
            (BadStrings(out'.inv) \/ out'.inv.msToLive <= 0) /\ NothingDone]_vars

\* C9 as amended: storeOrUpdate with an empty token or uid, or with msToLive
\* = 0, is rejected and no record is created or changed; other calls, a
\* negative msToLive among them, are accepted.
C9_RejectsZeroMs ==
    [][/\ \A p \in Procs : frame'[p].pc \in StorePcs =>
            ~ (BadStrings(frame'[p]) \/ frame'[p].msToLive = 0)
       /\ Rejected("storeOrUpdate")' =>
            (BadStrings(out'.inv) \/ out'.inv.msToLive = 0) /\ NothingDone]_vars

\* C9 witness: msToLive = 0 is rejected, for a uid whose record was stored
\* with a negative msToLive.
W_C9 ==
    /\ Rejected("storeOrUpdate") /\ ~ BadStrings(out.inv) /\ out.inv.msToLive = 0
    /\ \E k \in KeysOfUid(db, out.inv.uid) : db[k].ttl < 0

\* C10: authenticate with an empty token or uid, and invalidateUser with an
\* empty uid, are rejected in the calling step itself: no call is issued, and
\* neither the store nor any invocation in flight changes.
C10_RejectedBeforeBackend ==
    [][/\ \A p \in Procs :
            /\ frame'[p].pc \in AuthPcs => ~ BadStrings(frame'[p])
            /\ frame'[p].pc \in InvPcs => ~ FalsyStr(frame'[p].uid)
       /\ Rejected("authenticate")' => BadStrings(out'.inv) /\ NothingDone
       /\ Rejected("invalidateUser")' => FalsyStr(out'.inv.uid) /\ NothingDone]_vars

\* C10 witness: authenticate with an empty uid is rejected while the store
\* holds a record and another invocation is in flight.
W_C10 ==
    /\ Rejected("authenticate") /\ out.inv.uid = Empty /\ out.inv.token # Empty
    /\ db # EmptyDb
    /\ \E p \in Procs : frame[p].pc # "idle"

\* the negative cases of the authenticate in slot p, on the store its query reads
NoSuchUid(p) == \A k \in DOMAIN db : db[k].uid # frame[p].uid
OnlyExpired(p) ==
    /\ \E k \in DOMAIN db : db[k].uid = frame[p].uid
    /\ \A k \in DOMAIN db : db[k].uid = frame[p].uid => db[k].ttl <= frame[p].qnow
WrongToken(p) ==
    /\ \E k \in DOMAIN db : db[k].uid = frame[p].uid /\ db[k].ttl > frame[p].qnow
    /\ \A k \in DOMAIN db :
          (db[k].uid = frame[p].uid /\ db[k].ttl > frame[p].qnow)
            => ~ Compare(frame[p].token, db[k].hashedToken)

\* C11: the three negative cases of authenticate (no record for the uid, only
\* expired records, a valid record but another token) deliver the same
\* outcome, (no error, false, null), whenever no call of the invocation fails:
\* the first two end so when the query is answered, the third goes on to a
\* comparison that mismatches and then ends so.
C11_NegativeCasesAlike ==
    [][\A p \in Procs :
          /\ (AuthAnswered(p) /\ (NoSuchUid(p) \/ OnlyExpired(p))) => EndsNotValid(p)
          /\ (AuthAnswered(p) /\ WrongToken(p)) =>
                \/ EndsNotValid(p) /\ out'.calls = <<<<"runQuery", "failed">>>>
                \/ /\ frame'[p].pc = "auth_compare"
                   /\ ~ Compare(frame[p].token, frame'[p].hashedToken)
          /\ (frame[p].pc = "auth_compare" /\ frame'[p].pc = "idle"
                /\ ~ Compare(frame[p].token, frame[p].hashedToken)) =>
                /\ Ended("authenticate")' /\ out'.inv = frame[p]
                /\ out'.args[2] = FALSE /\ out'.args[3] = Null
                /\ Succeeded("authenticate")' => out'.args = NotValid]_vars

\* C11 witness: a wrong token is refused on a record that is valid and has an
\* originUrl, while another uid has only an expired record.
W_C11 ==
    /\ Succeeded("authenticate") /\ out.args = NotValid /\ Len(out.calls) = 2
    /\ \E k \in KeysOfUid(db, out.inv.uid) :
          db[k].ttl > out.inv.qnow /\ db[k].originUrl \in Urls
    /\ \E k \in DOMAIN db : db[k].uid # out.inv.uid /\ db[k].ttl <= now

BackendApis == {"runQuery", "upsert", "delete"}
Ops == {"authenticate", "storeOrUpdate", "invalidateUser", "clear", "length"}

\* the calls cs of one invocation: none is issued twice, and none follows a
\* call that has not succeeded
NoRetry(cs) ==
    /\ \A i, j \in 1..Len(cs) : i # j => cs[i][1] # cs[j][1]
    /\ \A i \in 1..(Len(cs) - 1) : cs[i][2] = "ok"

\* the invocation that just ended did so on a failed backend call
BackendFailed ==
    /\ out.op \in Ops /\ ~ out.thrown /\ Len(out.calls) > 0
    /\ out.calls[Len(out.calls)][1] \in BackendApis
    /\ out.calls[Len(out.calls)][2] = "failed"

\* C12: in each of the five operations a failed backend call ends the
\* invocation with the backend's error handed to the callback, as (error,
\* false, null) for authenticate; an invocation issues no backend call twice
\* and none after a failed one.
C12_BackendFailurePropagates ==
    /\ \A p \in Procs : NoRetry(calls[p])
    /\ NoRetry(out.calls)
    /\ BackendFailed =>
          out.args = IF out.op = "authenticate"
                     THEN <<StorageError, FALSE, Null>> ELSE <<StorageError>>
    /\ \A p \in Procs : frame[p].pc = "idle" => calls[p] = <<>>

\* C12 witness: a storeOrUpdate ended by the failure of its upsert, after a
\* hash and a query that succeeded.
W_C12 ==
    /\ BackendFailed /\ out.op = "storeOrUpdate"
    /\ out.calls = <<<<"hash", "ok">>, <<"runQuery", "ok">>, <<"upsert", "failed">>>>
    /\ out.args = <<StorageError>>

\* C13: authenticate fails closed.  An error of the comparison reaches the
\* caller as (error, false, null); valid = true is reported only by an
\* invocation whose query found a record of the uid with ttl later than the
\* time of the call and whose comparison with that record's hash succeeded
\* with a match.
C13_AuthenticateFailsClosed ==
    [][/\ \A p \in Procs :
            (AuthAnswered(p) /\ frame'[p].pc = "auth_compare") =>
                \E k \in DOMAIN db :
                    /\ db[k].uid = frame[p].uid /\ db[k].ttl > frame[p].qnow
                    /\ frame'[p].hashedToken = db[k].hashedToken
                    /\ frame'[p].originUrl = db[k].originUrl
       /\ (Ended("authenticate")' /\ Len(out'.calls) = 2
             /\ out'.calls[2] = <<"compare", "failed">>) =>
                out'.args = <<HashingError, FALSE, Null>>
       /\ (Ended("authenticate")' /\ out'.args[2]) =>
            /\ out'.calls = <<<<"runQuery", "ok">>, <<"compare", "ok">>>>
            /\ Compare(out'.inv.token, out'.inv.hashedToken)
            /\ out'.args = Valid(out'.inv.originUrl)]_vars

\* C13 witness: the comparison fails with an error although the token is the
\* stored one and the record is valid.
W_C13 ==
    /\ Ended("authenticate") /\ out.args = <<HashingError, FALSE, Null>>
    /\ Compare(out.inv.token, out.inv.hashedToken) /\ out.inv.ttl > now

\* no operation that writes records is in flight
NoWriter(fr) == \A q \in Procs : fr[q].pc \notin StorePcs \cup InvPcs \cup ClearPcs

\* C14: when a storeOrUpdate that ran concurrently with another writer of its
\* uid commits its upsert last, no writer being in flight any more, the uid's
\* record carries that call's hash, ttl and originUrl, and until the ttl
\* authenticate succeeds with that call's token and with no other.
C14_LastWriterWins ==
    [][(Succeeded("storeOrUpdate")' /\ ~ out'.inv.alone /\ NoWriter(frame')) =>
            /\ KeysOfUid(db', out'.inv.uid) # {}
            /\ \A k \in KeysOfUid(db', out'.inv.uid) : db'[k] = NewRecord(out'.inv)
            /\ \A token \in Tokens, t \in now'..MaxTime :
                  t < out'.inv.ttl =>
                    (AuthOutcome(db', token, out'.inv.uid, t)[2] <=> token = out'.inv.token)]_vars

\* the kind the documentation names as the default
DefaultKind == "passwordless-token"

\* a backend call of some invocation is in flight
BackendCallInFlight ==
    \E p \in Procs : \E i \in 1..Len(calls[p]) : calls[p][i][1] \in BackendApis

\* C15: a store constructed with a backend handle and no kind argument makes
\* its queries on, and allocates its keys in, the kind "passwordless-token".
C15_DefaultKind ==
    (Len(this.arguments) = 1 /\ BackendCallInFlight) =>
        QueryKind = DefaultKind /\ NewKeyKind = DefaultKind

\* C16: a storeOrUpdate that succeeds with no other writer of the uid in flight
\* during its run leaves exactly one record for the uid, carrying the new hash,
\* ttl and originUrl; when the uid had a record, expired or not, the record
\* keeps its key and the count is unchanged, and when it had none a key not in
\* use is taken and the count grows by one.
C16_ExactlyOneRecordAfterStore ==
    [][(Succeeded("storeOrUpdate")' /\ out'.inv.alone) =>
            /\ \E k \in DOMAIN db' :
                  KeysOfUid(db', out'.inv.uid) = {k} /\ db'[k] = NewRecord(out'.inv)
            /\ IF KeysOfUid(db, out'.inv.uid) # {}
               THEN /\ KeysOfUid(db', out'.inv.uid) = KeysOfUid(db, out'.inv.uid)
                    /\ Cardinality(DOMAIN db') = Cardinality(DOMAIN db)
               ELSE /\ KeysOfUid(db', out'.inv.uid) \cap DOMAIN db = {}
                    /\ Cardinality(DOMAIN db') = Cardinality(DOMAIN db) + 1]_vars

ReadPcs == AuthPcs \cup {"length_runQuery"}

\* slot p takes a step of an authenticate or a length
ReadStep(p) ==
    /\ frame'[p].pc # frame[p].pc
    /\ frame[p].pc \in ReadPcs \/ frame'[p].pc \in ReadPcs

\* C17: no step of authenticate or length, whatever its outcome, changes the
\* set of records or a field of a record; after an authenticate that reported
\* valid, and while the record it matched is stored, authenticate with the
\* same token and uid reports the same again at every time before the ttl.
C17_ReadsDoNotModify ==
    [][/\ ((\E p \in Procs : ReadStep(p)) \/ Rejected("authenticate")') => db' = db
       /\ (Ended("authenticate")' /\ out'.args[2]
             /\ \E k \in DOMAIN db' : db'[k] = NewRecord(out'.inv)) =>
            \A t \in now'..MaxTime :
                t < out'.inv.ttl =>
                    AuthOutcome(db', out'.inv.token, out'.inv.uid, t) = out'.args]_vars

\* C17 witness: an authenticate has reported valid and the record it matched
\* is still stored and still valid.
W_C17 ==
    /\ Succeeded("authenticate") /\ out.args[2]
    /\ \E k \in KeysOfUid(db, out.inv.uid) :
          /\ db[k].hashedToken = out.inv.hashedToken
          /\ db[k].ttl = out.inv.ttl /\ db[k].ttl > now

\* slot p takes a step of a storeOrUpdate or an invalidateUser for uid
WriteStepFor(p, uid) ==
    /\ frame'[p].pc # frame[p].pc
    /\ \/ frame[p].pc \in StorePcs \cup InvPcs /\ frame[p].uid = uid
       \/ frame'[p].pc \in StorePcs \cup InvPcs /\ frame'[p].uid = uid

\* C18: under any interleaving, a step of storeOrUpdate or invalidateUser for
\* a uid leaves every record of another uid as it is, creates no record of
\* another uid, and so leaves what authenticate reports for another uid as it
\* is.
C18_OtherUidsUntouched ==
    [][\A p \in Procs, uid \in Uids :
          WriteStepFor(p, uid) =>
            /\ \A k \in DOMAIN db : db[k].uid # uid => k \in DOMAIN db' /\ db'[k] = db[k]
            /\ \A k \in DOMAIN db' \ DOMAIN db : db'[k].uid = uid
            /\ \A other \in Uids \ {uid}, token \in Tokens, t \in 0..MaxTime :
                  AuthOutcome(db', token, other, t) = AuthOutcome(db, token, other, t)]_vars

\* C18 witness: an invalidateUser has deleted its uid's record while a record of
\* another uid is stored and a storeOrUpdate for that other uid is in flight.
W_C18 ==
    /\ Succeeded("invalidateUser") /\ Len(out.calls) = 2
    /\ \E k \in DOMAIN db : db[k].uid # out.inv.uid
    /\ \E q \in Procs : frame[q].pc = "store_upsert" /\ frame[q].uid # out.inv.uid

\* the step taken hands exactly the invocation of slot p to its callback and
\* ends it
CallsBack(p) ==
    /\ frame[p].pc # "idle" /\ frame'[p] = IdleFrame /\ calls'[p] = <<>>
    /\ out'.op \in Ops /\ ~ out'.thrown /\ out'.inv = frame[p]
    /\ \A q \in Procs \ {p} : frame'[q].pc = frame[q].pc

\* C19: every invocation that has passed the validation calls its callback at
\* some time, every pending call completing at some time, and calls it once:
\* an invocation ends in no other way than by its callback, and a callback
\* ends its invocation, which has no call pending after it.
C19_CallbackExactlyOnce ==
    /\ \A p \in Procs : (frame[p].pc # "idle") ~> (frame[p].pc = "idle")
    /\ [][/\ \A p \in Procs :
                (frame[p].pc # "idle" /\ frame'[p].pc = "idle") => CallsBack(p)
          /\ (out'.op \in Ops /\ ~ out'.thrown) => \E p \in Procs : CallsBack(p)]_vars

\* C19 witness: a clear has called back with the error of its delete while
\* another invocation is in flight.
W_C19 ==
    /\ Ended("clear") /\ out.args = <<StorageError>>
    /\ out.calls = <<<<"runQuery", "ok">>, <<"delete", "failed">>>>
    /\ \E q \in Procs : frame[q].pc # "idle"

\* the storeOrUpdate that just ended did so on a failed call
StoreFailed == Ended("storeOrUpdate") /\ ~ Succeeded("storeOrUpdate")

\* C20: a storeOrUpdate that fails has written nothing.  No step of a
\* storeOrUpdate but a successful upsert changes the store; a failed hash is
\* the only call of its invocation and a failed query the last one, so no
\* query follows the one and no upsert the other; and the token stored last
\* for the uid still authenticates at every time before its record's ttl.
C20_FailedStoreLeavesStore ==
    [][/\ \A p \in Procs :
            (frame[p].pc \in StorePcs /\ frame'[p].pc # frame[p].pc
               /\ ~ Succeeded("storeOrUpdate")') => db' = db
       /\ StoreFailed' =>
            \/ out'.calls = <<<<"hash", "failed">>>> /\ out'.args = <<HashingError>>
            \/ /\ out'.calls = <<<<"hash", "ok">>, <<"runQuery", "failed">>>>
               /\ out'.args = <<StorageError>>
            \/ /\ out'.calls = <<<<"hash", "ok">>, <<"runQuery", "ok">>, <<"upsert", "failed">>>>
               /\ out'.args = <<StorageError>>
       /\ (StoreFailed' /\ out'.inv.alone /\ lastStore[out'.inv.uid] # Null) =>
            /\ lastStore' = lastStore
            /\ \E k \in DOMAIN db' :
                  /\ db'[k].uid = out'.inv.uid
                  /\ Compare(lastStore[out'.inv.uid], db'[k].hashedToken)
                  /\ \A t \in now'..MaxTime :
                        t < db'[k].ttl =>
                          AuthOutcome(db', lastStore[out'.inv.uid], out'.inv.uid, t)
                            = Valid(db'[k].originUrl)]_vars

\* C20 witness: the upsert of a record with another originUrl fails for a uid
\* whose stored record is still valid.
W_C20 ==
    /\ StoreFailed /\ out.inv.alone /\ Len(out.calls) = 3
    /\ lastStore[out.inv.uid] # Null
    /\ \E k \in KeysOfUid(db, out.inv.uid) :
          /\ Compare(lastStore[out.inv.uid], db[k].hashedToken) /\ db[k].ttl > now
          /\ db[k].originUrl # out.inv.originUrl

====
